---------------------------- MODULE Spec2Model ----------------------------
(***************************************************************************)
(* Model of etl.py: get_data_from_gcs, dp013, load_df_to_bq and the        *)
(* __main__ script that chains them.                                       *)
(*                                                                         *)
(* An "instance" is one run of the code: either a run of the script        *)
(* (entry "main") or a direct call of the helper load_df_to_bq (entry      *)
(* "load").  All instances write to one destination table.  The object     *)
(* store and the warehouse are the environment: the outcome of a download  *)
(* and of a load job is a nondeterministic choice.                         *)
(*                                                                         *)
(* Durations are modelled as integers (whole seconds); NaN (an empty CSV   *)
(* cell) and text cells are separate cell kinds.                           *)
(***************************************************************************)
EXTENDS Integers, Sequences, FiniteSets

VARIABLES
    active,   \* the instances that run
    pc,       \* pc[i]: position of instance i in the code
    entry,    \* entry[i]: "main" (the script) or "load" (direct call of load_df_to_bq)
    df,       \* df[i]: the DataFrame held by instance i
    wd,       \* wd[i]: the write_disposition argument of load_df_to_bq
    job,      \* job[i]: the load job of instance i at the warehouse
    result,   \* result[i]: the (success, rows) tuple returned by load_df_to_bq
    err,      \* err[i]: the exception that ended instance i
    log,      \* log[i]: the observable events of instance i, in order
    dest,     \* the rows of the destination table
    dest0,    \* the rows the destination table held at the start
    call      \* one call of dp013 on a scalar: argument, called flag, result

vars == <<active, pc, entry, df, wd, job, result, err, log, dest, dest0, call>>

\* ----------------------------------------------------------------- bounds
MaxRows == 3        \* longest table read by a single instance
MaxConcRows == 1    \* longest table when two instances run together
MaxDuration == 10900 \* largest duration tried on dp013 (besides 1000000)
MaxNegative == 40   \* dp013 is tried on -MaxNegative .. MaxDuration

Inst == {1, 2}

\* ------------------------------------------------------------------ cells
Num(n) == [kind |-> "num", n |-> n]
NaN == [kind |-> "nan", n |-> 0]
Str == [kind |-> "str", n |-> 0]

\* ------------------------------------------------------------- dp013 (60-68)
dp013_open(resolution_time) ==
    IF resolution_time < 1800 THEN 10
    ELSE IF 1800 <= resolution_time /\ resolution_time <= 7200 THEN 7
    ELSE IF 7200 < resolution_time /\ resolution_time <= 10800 THEN 5
    ELSE 0

dp013_neg(resolution_time) ==
    IF 0 <= resolution_time /\ resolution_time <= 1800 THEN 10
    ELSE IF 1800 < resolution_time /\ resolution_time <= 7200 THEN 7
    ELSE IF 7200 < resolution_time /\ resolution_time <= 10800 THEN 5
    ELSE 0

dp013(resolution_time) ==
    IF resolution_time <= 1800 THEN 10
    ELSE IF 1800 < resolution_time /\ resolution_time <= 7200 THEN 7
    ELSE IF 7200 < resolution_time /\ resolution_time <= 10800 THEN 5
    ELSE 0

\* dp013 on a cell of the calendar_duration column.  Every comparison with NaN
\* is false, so NaN falls through to the else branch.  (A text cell makes the
\* first comparison raise TypeError: see Raises.)
dp013Cell(c) ==
    IF c.kind = "num" THEN Num(dp013(c.n)) ELSE Num(0)

Raises(c) == c.kind = "str"

\* ----------------------------------------------------------------- tables
NoneDf == [isNone |-> TRUE, cols |-> {}, rows |-> <<>>]
Table(cols, rows) == [isNone |-> FALSE, cols |-> cols, rows |-> rows]

\* len(df)
LenDf(d) == Len(d.rows)

\* df is None or df.empty (line 42); DataFrame.empty: some axis has length 0
IsEmpty_noneOnly(d) == d.isNone
IsEmpty(d) == IF d.isNone THEN TRUE ELSE (d.cols = {} \/ Len(d.rows) = 0)

SampleDurations == {500, 5000, 9000, 20000}
ConcDurations == {500, 9000}
UserCells == {Num(1)}
OldScoreCells == {Num(99)}

ColSets == { {"user"}, {"user", "calendar_duration"},
             {"user", "calendar_duration", "DP013"} }
ConcColSets == { {"user"}, {"user", "calendar_duration"} }

DurationCells == {Num(d) : d \in SampleDurations} \cup {NaN}
ConcDurationCells == {Num(d) : d \in ConcDurations}

RowsOf(cols, durCells) ==
    {r \in [cols -> UserCells \cup OldScoreCells \cup durCells] :
        \A c \in cols : r[c] \in (IF c = "user" THEN UserCells
                                  ELSE IF c = "DP013" THEN OldScoreCells
                                  ELSE durCells)}

TextRow == [c \in {"user", "calendar_duration"} |->
               IF c = "user" THEN Num(1) ELSE Str]

SeqsUpTo(S, n) == UNION {[1..k -> S] : k \in 0..n}

\* what pd.read_csv can return: a header and up to n rows; a column holding
\* text is read as text in every row
ParsedTables(colSets, durCells, n) ==
    UNION {{Table(cols, rows) : rows \in SeqsUpTo(RowsOf(cols, durCells), n)} :
              cols \in colSets} \cup
    {Table({"user", "calendar_duration"}, rows) : rows \in SeqsUpTo({TextRow}, n)}

Concurrent == Cardinality(active) > 1
InputTables == IF Concurrent
               THEN ParsedTables(ConcColSets, ConcDurationCells, MaxConcRows)
               ELSE ParsedTables(ColSets, DurationCells, MaxRows)
LoadArgs == {NoneDf} \cup
            (IF Concurrent
             THEN ParsedTables({{"user", "calendar_duration"}}, {Num(500)}, MaxConcRows)
             ELSE ParsedTables(ColSets, {Num(500)}, MaxRows))

NoJob == [state |-> "none", rows |-> <<>>, mode |-> "none",
          has_output_rows |-> FALSE, output_rows |-> 0]
NoResult == [set |-> FALSE, success |-> FALSE, rows |-> 0]
NoErr == [stage |-> "none", name |-> "none"]

OldRow == [c \in {"user", "calendar_duration", "DP013"} |->
              IF c = "user" THEN Num(0) ELSE IF c = "DP013" THEN Num(10) ELSE Num(60)]

\* ------------------------------------------------------- transform (line 85)
\* df['calendar_duration'] raises KeyError without the column; dp013 raises
\* TypeError on a text cell.  apply() builds the whole new column before the
\* assignment, so a raise leaves df as it was.
TransformRaises(t) ==
    IF "calendar_duration" \notin t.cols THEN TRUE
    ELSE \E k \in 1..Len(t.rows) : Raises(t.rows[k]["calendar_duration"])

ApplyTransform_firstRow(t) ==
    Table(t.cols \cup {"DP013"},
          [k \in 1..Len(t.rows) |->
              [c \in t.cols \cup {"DP013"} |->
                  IF c = "DP013" THEN dp013Cell(t.rows[1]["calendar_duration"])
                  ELSE t.rows[k][c]]])

ApplyTransform_inPlace(t) ==
    Table(t.cols \cup {"DP013"},
          [k \in 1..Len(t.rows) |->
              [c \in t.cols \cup {"DP013"} |->
                  IF c \in {"DP013", "calendar_duration"}
                  THEN dp013Cell(t.rows[k]["calendar_duration"])
                  ELSE t.rows[k][c]]])

ApplyTransform_reversed(t) ==
    Table(t.cols \cup {"DP013"},
          [k \in 1..Len(t.rows) |->
              [c \in t.cols \cup {"DP013"} |->
                  IF c = "DP013"
                  THEN dp013Cell(t.rows[Len(t.rows) + 1 - k]["calendar_duration"])
                  ELSE t.rows[Len(t.rows) + 1 - k][c]]])

\* df['DP013'] = df['calendar_duration'].apply(dp013)
ApplyTransform(t) ==
    Table(t.cols \cup {"DP013"},
          [k \in 1..Len(t.rows) |->
              [c \in t.cols \cup {"DP013"} |->
                  IF c = "DP013" THEN dp013Cell(t.rows[k]["calendar_duration"])
                  ELSE t.rows[k][c]]])

\* ------------------------------------------------------------------- Init
InitCommon ==
    /\ pc = [i \in Inst |-> IF i \in active THEN "init" ELSE "off"]
    /\ entry = [i \in Inst |-> "none"]
    /\ df = [i \in Inst |-> NoneDf]
    /\ wd = [i \in Inst |-> "none"]
    /\ job = [i \in Inst |-> NoJob]
    /\ result = [i \in Inst |-> NoResult]
    /\ err = [i \in Inst |-> NoErr]
    /\ log = [i \in Inst |-> <<>>]
    /\ dest = dest0

\* one instance
Init ==
    /\ active = {1}
    /\ dest0 \in {<<>>, <<OldRow>>}
    /\ call = [arg |-> 0, called |-> FALSE, res |-> 0]
    /\ InitCommon

\* two instances against the same destination table
InitConc ==
    /\ active = {1, 2}
    /\ dest0 = <<OldRow>>
    /\ call = [arg |-> 0, called |-> FALSE, res |-> 0]
    /\ InitCommon

\* no instance: one call of dp013 on a scalar
InitFn ==
    /\ active = {}
    /\ dest0 = <<>>
    /\ call \in {[arg |-> a, called |-> FALSE, res |-> 0] :
                    a \in (-MaxNegative..MaxDuration) \cup {1000000}}
    /\ InitCommon

\* ---------------------------------------------------------------- actions
Emit(i, evs) == log' = [log EXCEPT ![i] = @ \o evs]

\* python etl.py: lines 74-79, then line 82
RunScript(i) ==
    /\ pc[i] = "init"
    /\ pc' = [pc EXCEPT ![i] = "fetch"]
    /\ entry' = [entry EXCEPT ![i] = "main"]
    /\ UNCHANGED <<active, df, wd, job, result, err, log, dest, dest0, call>>

\* a caller imports the module and calls load_df_to_bq(df, ..., write_disposition)
CallLoadDirect(i) ==
    /\ pc[i] = "init"
    /\ \E d \in LoadArgs, m \in {"WRITE_APPEND", "WRITE_TRUNCATE"} :
          /\ df' = [df EXCEPT ![i] = d]
          /\ wd' = [wd EXCEPT ![i] = m]
    /\ pc' = [pc EXCEPT ![i] = "load"]
    /\ entry' = [entry EXCEPT ![i] = "load"]
    /\ UNCHANGED <<active, job, result, err, log, dest, dest0, call>>

\* get_data_from_gcs returns: download, read_csv, the rows notice
Fetch(i) ==
    /\ pc[i] = "fetch"
    /\ \E t \in InputTables : df' = [df EXCEPT ![i] = t]
    /\ Emit(i, <<"download", "fetched">>)
    /\ pc' = [pc EXCEPT ![i] = "transform"]
    /\ UNCHANGED <<active, entry, wd, job, result, err, dest, dest0, call>>

\* get_data_from_gcs raises: the download or read_csv fails; nothing catches it
FetchFail(i) ==
    /\ pc[i] = "fetch"
    /\ \E e \in {"NotFound", "Forbidden", "ConnectionError", "ParserError"} :
          err' = [err EXCEPT ![i] = [stage |-> "fetch", name |-> e]]
    /\ Emit(i, <<"download", "raise">>)
    /\ pc' = [pc EXCEPT ![i] = "error"]
    /\ UNCHANGED <<active, entry, df, wd, job, result, dest, dest0, call>>

Transform(i) ==
    /\ pc[i] = "transform"
    /\ ~TransformRaises(df[i])
    /\ df' = [df EXCEPT ![i] = ApplyTransform(@)]
    /\ Emit(i, <<"transform", "transformed">>)
    /\ pc' = [pc EXCEPT ![i] = "call"]
    /\ UNCHANGED <<active, entry, wd, job, result, err, dest, dest0, call>>

TransformFail_swallowed(i) ==
    /\ pc[i] = "transform"
    /\ TransformRaises(df[i])
    /\ err' = [err EXCEPT ![i] =
                 [stage |-> "transform",
                  name |-> IF "calendar_duration" \notin df[i].cols
                           THEN "KeyError" ELSE "TypeError"]]
    /\ Emit(i, <<"transform", "raise">>)
    /\ pc' = [pc EXCEPT ![i] = "call"]
    /\ UNCHANGED <<active, entry, df, wd, job, result, dest, dest0, call>>

TransformFail(i) ==
    /\ pc[i] = "transform"
    /\ TransformRaises(df[i])
    /\ err' = [err EXCEPT ![i] =
                 [stage |-> "transform",
                  name |-> IF "calendar_duration" \notin df[i].cols
                           THEN "KeyError" ELSE "TypeError"]]
    /\ Emit(i, <<"transform", "raise">>)
    /\ pc' = [pc EXCEPT ![i] = "error"]
    /\ UNCHANGED <<active, entry, df, wd, job, result, dest, dest0, call>>

MainCallLoad_truncate(i) ==
    /\ pc[i] = "call"
    /\ wd' = [wd EXCEPT ![i] = "WRITE_TRUNCATE"]
    /\ pc' = [pc EXCEPT ![i] = "load"]
    /\ UNCHANGED <<active, entry, df, job, result, err, log, dest, dest0, call>>

\* line 88: load_df_to_bq(df, PROJECT, DATASET, TABLE, write_disposition="WRITE_APPEND")
MainCallLoad(i) ==
    /\ pc[i] = "call"
    /\ wd' = [wd EXCEPT ![i] = "WRITE_APPEND"]
    /\ pc' = [pc EXCEPT ![i] = "load"]
    /\ UNCHANGED <<active, entry, df, job, result, err, log, dest, dest0, call>>

\* lines 42-44
LoadEmpty(i) ==
    /\ pc[i] = "load"
    /\ IsEmpty(df[i])
    /\ Emit(i, <<"print_empty", "return">>)
    /\ result' = [result EXCEPT ![i] = [set |-> TRUE, success |-> TRUE, rows |-> 0]]
    /\ pc' = [pc EXCEPT ![i] = "returned"]
    /\ UNCHANGED <<active, entry, df, wd, job, err, dest, dest0, call>>

\* lines 46-53: the client is created and the job is submitted
LoadSubmit(i) ==
    /\ pc[i] = "load"
    /\ ~IsEmpty(df[i])
    /\ Emit(i, <<"client", "submit">>)
    /\ job' = [job EXCEPT ![i] = [state |-> "running", rows |-> df[i].rows,
                                  mode |-> wd[i], has_output_rows |-> FALSE,
                                  output_rows |-> 0]]
    /\ pc' = [pc EXCEPT ![i] = "wait"]
    /\ UNCHANGED <<active, entry, df, wd, result, err, dest, dest0, call>>

\* lines 46-53 raise: the warehouse refuses the client or the submission
LoadSubmitFail(i) ==
    /\ pc[i] = "load"
    /\ ~IsEmpty(df[i])
    /\ Emit(i, <<"client", "submit", "raise">>)
    /\ err' = [err EXCEPT ![i] = [stage |-> "load", name |-> "Forbidden"]]
    /\ pc' = [pc EXCEPT ![i] = "error"]
    /\ UNCHANGED <<active, entry, df, wd, job, result, dest, dest0, call>>

\* the warehouse finishes the job of instance i: a load job is atomic, it
\* appends all its rows (WRITE_APPEND) or replaces the table by them
\* (WRITE_TRUNCATE); the output_rows statistic it reports is its own choice
WarehouseComplete(i) ==
    /\ job[i].state = "running"
    /\ \E has \in BOOLEAN, n \in 0..Len(job[i].rows) :
          /\ has \/ n = 0
          /\ job' = [job EXCEPT ![i] = [@ EXCEPT !.state = "done",
                                                 !.has_output_rows = has,
                                                 !.output_rows = n]]
    /\ dest' = IF job[i].mode = "WRITE_TRUNCATE" THEN job[i].rows
               ELSE dest \o job[i].rows
    /\ Emit(i, <<"job_done">>)
    /\ UNCHANGED <<active, pc, entry, df, wd, result, err, dest0, call>>

\* the warehouse rejects the job of instance i (permission, schema)
WarehouseFail(i) ==
    /\ job[i].state = "running"
    /\ job' = [job EXCEPT ![i] = [@ EXCEPT !.state = "failed"]]
    /\ Emit(i, <<"job_failed">>)
    /\ UNCHANGED <<active, pc, entry, df, wd, result, err, dest, dest0, call>>

LoadWait_noBlock(i) ==
    /\ pc[i] = "wait"
    /\ job[i].state \in {"running", "done"}
    /\ LET rows == IF job[i].has_output_rows /\ job[i].output_rows # 0
                   THEN job[i].output_rows ELSE LenDf(df[i])
       IN result' = [result EXCEPT ![i] =
                        [set |-> TRUE, success |-> TRUE, rows |-> rows]]
    /\ Emit(i, <<"print_bq", "return">>)
    /\ pc' = [pc EXCEPT ![i] = "returned"]
    /\ UNCHANGED <<active, entry, df, wd, job, err, dest, dest0, call>>

\* lines 54-57: load_job.result() returns, rows = int(output_rows or len(df))
LoadWait(i) ==
    /\ pc[i] = "wait"
    /\ job[i].state = "done"
    /\ LET rows == IF job[i].has_output_rows /\ job[i].output_rows # 0
                   THEN job[i].output_rows ELSE LenDf(df[i])
       IN result' = [result EXCEPT ![i] =
                        [set |-> TRUE, success |-> TRUE, rows |-> rows]]
    /\ Emit(i, <<"print_bq", "return">>)
    /\ pc' = [pc EXCEPT ![i] = "returned"]
    /\ UNCHANGED <<active, entry, df, wd, job, err, dest, dest0, call>>

\* line 54 raises: the job failed
LoadWaitFail(i) ==
    /\ pc[i] = "wait"
    /\ job[i].state = "failed"
    /\ \E e \in {"Forbidden", "BadRequest"} :
          err' = [err EXCEPT ![i] = [stage |-> "load", name |-> e]]
    /\ Emit(i, <<"raise">>)
    /\ pc' = [pc EXCEPT ![i] = "error"]
    /\ UNCHANGED <<active, entry, df, wd, job, result, dest, dest0, call>>

\* line 54 raises: the client library stops waiting for a job still running
LoadTimeout(i) ==
    /\ pc[i] = "wait"
    /\ job[i].state = "running"
    /\ err' = [err EXCEPT ![i] = [stage |-> "load", name |-> "TimeoutError"]]
    /\ Emit(i, <<"raise">>)
    /\ pc' = [pc EXCEPT ![i] = "error"]
    /\ UNCHANGED <<active, entry, df, wd, job, result, dest, dest0, call>>

\* line 89: print("Done:", success, rows)
Done(i) ==
    /\ pc[i] = "returned"
    /\ entry[i] = "main"
    /\ Emit(i, <<"print_done">>)
    /\ pc' = [pc EXCEPT ![i] = "done"]
    /\ UNCHANGED <<active, entry, df, wd, job, result, err, dest, dest0, call>>

\* dp013(arg) on a scalar
CallDp013 ==
    /\ ~call.called
    /\ call' = [call EXCEPT !.called = TRUE, !.res = dp013(call.arg)]
    /\ UNCHANGED <<active, pc, entry, df, wd, job, result, err, log, dest, dest0>>

Next ==
    \/ \E i \in active : RunScript(i)
    \/ \E i \in active : CallLoadDirect(i)
    \/ \E i \in active : Fetch(i)
    \/ \E i \in active : FetchFail(i)
    \/ \E i \in active : Transform(i)
    \/ \E i \in active : TransformFail(i)
    \/ \E i \in active : MainCallLoad(i)
    \/ \E i \in active : LoadEmpty(i)
    \/ \E i \in active : LoadSubmit(i)
    \/ \E i \in active : LoadSubmitFail(i)
    \/ \E i \in active : WarehouseComplete(i)
    \/ \E i \in active : WarehouseFail(i)
    \/ \E i \in active : LoadWait(i)
    \/ \E i \in active : LoadWaitFail(i)
    \/ \E i \in active : LoadTimeout(i)
    \/ \E i \in active : Done(i)

NextFn == CallDp013

Spec == Init /\ [][Next]_vars
SpecConc == InitConc /\ [][Next]_vars
SpecFn == InitFn /\ [][NextFn]_vars

\* ------------------------------------------------------------ claim helpers
Has(l, e) == \E k \in 1..Len(l) : l[k] = e
Count(l, e) == Cardinality({k \in 1..Len(l) : l[k] = e})
First(l, e) == CHOOSE k \in 1..Len(l) : l[k] = e /\ \A j \in 1..(k - 1) : l[j] # e
Before(l, a, b) == Has(l, b) => (Has(l, a) /\ First(l, a) < First(l, b))

\* instance i is inside load_df_to_bq or past it
InLoad(i) ==
    \/ pc[i] \in {"load", "wait", "returned", "done"}
    \/ pc[i] = "error" /\ err[i].stage = "load"

\* instance i is a run of the script that is past line 85
PastTransform(i) == entry[i] = "main" /\ (pc[i] = "call" \/ InLoad(i))

Column(t, c) == [k \in 1..Len(t.rows) |-> t.rows[k][c]]

\* C1: for every non-negative duration r, dp013(r) is 10 for r <= 1800, 7 for
\* 1800 < r <= 7200, 5 for 7200 < r <= 10800 and 0 for r > 10800, the upper
\* bound of each bucket being closed; the result is one of 0, 5, 7, 10.
C1_Buckets ==
    (call.called /\ call.arg >= 0) =>
        /\ call.res \in {0, 5, 7, 10}
        /\ (call.arg <= 1800) => call.res = 10
        /\ (1800 < call.arg /\ call.arg <= 7200) => call.res = 7
        /\ (7200 < call.arg /\ call.arg <= 10800) => call.res = 5
        /\ (call.arg > 10800) => call.res = 0
        /\ (call.arg = 1800) => call.res = 10
        /\ (call.arg = 1801) => call.res = 7
        /\ (call.arg = 7200) => call.res = 7
        /\ (call.arg = 7201) => call.res = 5
        /\ (call.arg = 10800) => call.res = 5
        /\ (call.arg = 10801) => call.res = 0
        /\ (call.arg = 1000000) => call.res = 0

C1_Witness == call.called /\ call.arg = 1800 /\ call.res = 10

\* C2: load_df_to_bq on an empty table or on no table returns (True, 0), and
\* no warehouse client is created and no load job is submitted, whatever the
\* write mode.
C2_EmptyShortCircuit ==
    \A i \in active :
        (InLoad(i) /\ (df[i].isNone \/ Len(df[i].rows) = 0)) =>
            /\ ~Has(log[i], "client")
            /\ ~Has(log[i], "submit")
            /\ job[i].state = "none"
            /\ pc[i] \notin {"wait", "error"}
            /\ pc[i] \in {"returned", "done"} =>
                  (result[i].set /\ result[i].success /\ result[i].rows = 0)

C2_Witness ==
    \E i \in active :
        /\ pc[i] = "returned"
        /\ ~df[i].isNone
        /\ Len(df[i].rows) = 0
        /\ wd[i] = "WRITE_TRUNCATE"
        /\ result[i] = [set |-> TRUE, success |-> TRUE, rows |-> 0]

\* C3: when load_df_to_bq is called with a non-empty table and the job
\* completes, the returned row count equals the output row count the
\* warehouse reported, for every value it may report (zero included), and
\* the success flag is true.
C3_RowsAreReported ==
    \A i \in active :
        (pc[i] \in {"returned", "done"} /\ job[i].state = "done"
            /\ job[i].has_output_rows) =>
            (result[i].success /\ result[i].rows = job[i].output_rows)

\* C4: in every run the fetch completes before the transform starts, the
\* transform completes before the load job is submitted, load_df_to_bq
\* returns and the completion notice is printed only after the warehouse
\* finished the job; at most one job is submitted per run.
C4_StepOrder ==
    \A i \in active :
        /\ Before(log[i], "fetched", "transform")
        /\ (entry[i] = "main") => Before(log[i], "transformed", "client")
        /\ (entry[i] = "main") => Before(log[i], "transformed", "submit")
        /\ (entry[i] = "main") => Before(log[i], "transformed", "return")
        /\ Before(log[i], "client", "submit")
        /\ Before(log[i], "submit", "job_done")
        /\ Has(log[i], "submit") => Before(log[i], "job_done", "return")
        /\ Has(log[i], "submit") => Before(log[i], "job_done", "print_bq")
        /\ Before(log[i], "return", "print_done")
        /\ Count(log[i], "submit") <= 1
        /\ pc[i] \in {"returned", "done"} => job[i].state \in {"none", "done"}

C4_Witness ==
    \E i \in active :
        /\ pc[i] = "done"
        /\ Has(log[i], "job_done")
        /\ Has(log[i], "transformed")

\* C5: every error is terminal and nothing is retried: after a failed fetch
\* or a failed transform the run is in the error state, no load job is
\* submitted and no completion notice is printed; after a failed load no
\* success result is returned; the download and the load job are each
\* attempted at most once.
C5_ErrorsTerminal ==
    \A i \in active :
        /\ (err[i].stage # "none") <=> (pc[i] = "error")
        /\ err[i].stage \in {"fetch", "transform"} =>
              /\ ~Has(log[i], "client")
              /\ ~Has(log[i], "submit")
              /\ job[i].state = "none"
        /\ err[i].stage # "none" =>
              /\ ~result[i].set
              /\ ~Has(log[i], "return")
              /\ ~Has(log[i], "print_done")
        /\ Count(log[i], "download") <= 1
        /\ Count(log[i], "submit") <= 1

C5_Witness ==
    \E i \in active :
        /\ pc[i] = "error"
        /\ err[i] = [stage |-> "transform", name |-> "TypeError"]
        /\ Len(df[i].rows) > 0

\* C6: after the transform every row has a DP013 value, equal to dp013 of
\* that row's calendar_duration; durations 500, 5000, 9000 give 10, 7, 5;
\* the table handed to the load step satisfies this.
C6_ScorePerRow ==
    \A i \in active :
        PastTransform(i) =>
            /\ "DP013" \in df[i].cols
            /\ \A k \in 1..Len(df[i].rows) :
                  df[i].rows[k]["DP013"] = dp013Cell(df[i].rows[k]["calendar_duration"])
            /\ Column(df[i], "calendar_duration") = <<Num(500), Num(5000), Num(9000)>>
                  => Column(df[i], "DP013") = <<Num(10), Num(7), Num(5)>>
            /\ job[i].state # "none" => job[i].rows = df[i].rows

C6_Witness ==
    \E i \in active :
        /\ entry[i] = "main"
        /\ pc[i] = "wait"
        /\ Column(df[i], "calendar_duration") = <<Num(500), Num(5000), Num(9000)>>
        /\ Column(df[i], "DP013") = <<Num(10), Num(7), Num(5)>>

\* C7: when two runs of the script load into the same destination table and
\* both jobs complete, the table holds its earlier rows and all rows of both
\* runs, each as often as it was loaded, under every interleaving; only the
\* order of the rows is open.
C7_BothAppendsKept ==
    (entry[1] = "main" /\ entry[2] = "main"
        /\ job[1].state = "done" /\ job[2].state = "done") =>
        /\ Len(dest) = Len(dest0) + Len(df[1].rows) + Len(df[2].rows)
        /\ \A k \in 1..Len(dest) :
              Count(dest, dest[k]) = Count(dest0, dest[k])
                  + Count(df[1].rows, dest[k]) + Count(df[2].rows, dest[k])
        /\ \A k \in 1..Len(dest0) : Has(dest, dest0[k])
        /\ \A i \in {1, 2} : \A k \in 1..Len(df[i].rows) : Has(dest, df[i].rows[k])

C7_Witness ==
    /\ entry[1] = "main" /\ entry[2] = "main"
    /\ job[1].state = "done" /\ job[2].state = "done"
    /\ Len(df[1].rows) > 0 /\ Len(df[2].rows) > 0
    /\ df[1].rows # df[2].rows
    /\ dest = dest0 \o df[2].rows \o df[1].rows

\* C8: for every negative duration r, dp013(r) is 10.
C8_NegativeIsTen ==
    (call.called /\ call.arg < 0) => call.res = 10

C8_Witness == call.called /\ call.arg = -1 /\ call.res = 10

\* C9: applying the transform again to a table that already carries DP013
\* gives the same DP013 value on every row.
C9_Idempotent ==
    \A i \in active :
        PastTransform(i) =>
            /\ ~TransformRaises(df[i])
            /\ Column(ApplyTransform(df[i]), "DP013") = Column(df[i], "DP013")

C9_Witness ==
    \E i \in active :
        /\ PastTransform(i)
        /\ Column(df[i], "calendar_duration") = <<Num(5000), Num(20000)>>
        /\ Column(df[i], "DP013") = <<Num(7), Num(0)>>

\* what a step from table a to table b may change: the DP013 column only
OnlyScoreChanged(a, b) ==
    /\ ~b.isNone
    /\ b.cols = a.cols \cup {"DP013"}
    /\ Len(b.rows) = Len(a.rows)
    /\ \A k \in 1..Len(a.rows) :
          \A c \in a.cols \ {"DP013"} : b.rows[k][c] = a.rows[k][c]

\* C10: once a table exists it is changed only by the transform, and only in
\* its DP013 column: the number of rows, their order and every other column
\* stay; load_df_to_bq does not change the table on either of its paths.
C10_Frame ==
    [][\A i \in Inst :
          (df'[i] # df[i]) =>
              \/ pc[i] \in {"init", "fetch"}
              \/ pc[i] = "transform" /\ OnlyScoreChanged(df[i], df'[i])]_vars

C10_Witness ==
    \E i \in active :
        /\ pc[i] = "done"
        /\ job[i].state = "done"
        /\ Len(df[i].rows) = 2
        /\ df[i].rows[1]["calendar_duration"] # df[i].rows[2]["calendar_duration"]
====
